---- MODULE Spec2Model ----
(***************************************************************************)
(* The arming and control core of triforce-robot: the shared arming state  *)
(* (thread_args_t.state), the tasks that write it (task_arming,            *)
(* task_failsafe, task_process_commands through command_execute), the      *)
(* mixer and actuator dispatch of task_set_escs, the serial reader that    *)
(* feeds the command queue, and the receiver channels: their calibration   *)
(* (task_calibrate_channels) and normalisation (task_read_receiver).       *)
(*                                                                         *)
(* The tasks are threads of a preemptive RTOS sharing one thread_args_t    *)
(* with no lock: a task's read of args->state (the switch / if) and its    *)
(* later assignment are separate steps.                                    *)
(*                                                                         *)
(*   Spec      the three writers interleaved at the grain read / write     *)
(*   SpecSeq   each periodic task's evaluation run without interference    *)
(*   SpecCmd   serial reader -> mail queue -> command processor, and       *)
(*             command_execute applied to any command id                   *)
(*   SpecMix   task_set_escs cycle after cycle while the sticks move       *)
(*   SpecCal   one calibration run after another while the sticks move     *)
(*   SpecRx    calibration and task_read_receiver interleaved              *)
(*   SpecEsc   SpecMix started in any of the four arming states            *)
(*   SpecSerial  the serial reader character by character                  *)
(*   SpecLive, SpecCmdLive  Spec and SpecCmd with the failsafe task, resp. *)
(*             the command processor, scheduled fairly                     *)
(***************************************************************************)
EXTENDS Integers, Sequences, FiniteSets, TLC

VARIABLES
  state,            \* args->state
  drive_stalled,    \* what is_drive_stalled(args) returns now
  weapon_stalled,   \* what is_weapon_stalled(args) returns now
  fs,               \* task_failsafe: position, locals, the state it read
  arm,              \* task_arming: position, locals, the state it read
  cmd,              \* task_process_commands: position, command, state read
  cmd_overlap,      \* axes the failsafe lowered while the command was between read and write
  arm_overlap,      \* axes the failsafe lowered while task_arming was between read and write
  cmd_first,        \* what a command wrote while task_arming, having read the same state, was between read and write
  last,             \* SpecSeq: the last evaluation (task, state before, inputs)
  escs,             \* last call each ESC received
  cycle,            \* the last cycle of task_set_escs (controls and state read, calls issued)
  outputs,          \* args->outputs
  sticks,           \* the control values task_set_escs reads: controls[1]'s aileron, elevation, rudder and controls[0]'s throttle
  command_queue,    \* args->command_queue: the mail queue
  rx,               \* task_read_serial: result of command_generate for the line just entered
  halted,           \* the MCU took a hard fault
  log,              \* the current run of executions of one command: [id, pre, ret, post]
  pos,              \* task_read_serial: int pos
  touched,          \* task_read_serial: the indices at which the last pass read or wrote buffer
  pending,          \* the commands put on the queue and not yet executed by task_process_commands, oldest first
  pulse,            \* what receiver[..].channel[..]->pulsewidth() returns now
  channel_limits,   \* args->channel_limits
  controls,         \* args->controls, as task_read_receiver publishes them
  cal_active,       \* args->tasks[TASK_CALIBRATE_CHANNELS_ID].active
  cal,              \* task_calibrate_channels: position and locals
  rcv,              \* task_read_receiver: position and locals
  seen,             \* the pulse widths sampled on each channel in the current calibration run
  passes,           \* sampling passes completed in the current calibration run
  requests,         \* times the calibration flag was set from outside
  resets            \* times a calibration run reset the limits

armvars  == <<state, drive_stalled, weapon_stalled>>
taskvars == <<fs, arm, cmd_overlap, arm_overlap, cmd_first>>
seqvars  == <<last, escs, cycle, outputs, sticks>>
cmdvars  == <<command_queue, rx, halted, log>>
calobs   == <<seen, passes, requests, resets>>
servars  == <<pos, touched>>
rcvars   == <<pulse, channel_limits, controls, cal_active, cal, rcv, calobs>>
vars     == <<state, drive_stalled, weapon_stalled, fs, arm, cmd, cmd_overlap,
              arm_overlap, cmd_first, last, escs, cycle, outputs, sticks,
              command_queue, rx, halted, log, pulse, channel_limits, controls, cal_active, cal,
              rcv, seen, passes, requests, resets, pending, pos, touched>>

----------------------------------------------------------------------------
(* Bounds *)

\* executions kept in log
MaxLog == 4
\* slots of the command mail queue (Mail<command_t, N>)
MaxQueue == 1
\* times the calibration flag is set from outside
MaxRuns == 2
\* bytes past the end of the line buffer that task_read_serial is followed
MaxOverrun == 2

----------------------------------------------------------------------------
(* Arming states, return codes, command ids *)

STATE_DISARMED    == "STATE_DISARMED"
STATE_DRIVE_ONLY  == "STATE_DRIVE_ONLY"
STATE_WEAPON_ONLY == "STATE_WEAPON_ONLY"
STATE_FULLY_ARMED == "STATE_FULLY_ARMED"
States == {STATE_DISARMED, STATE_DRIVE_ONLY, STATE_WEAPON_ONLY, STATE_FULLY_ARMED}

RET_OK               == "RET_OK"
RET_ERROR            == "RET_ERROR"
RET_ALREADY_DISARMED == "RET_ALREADY_DISARMED"
RET_ALREADY_ARMED    == "RET_ALREADY_ARMED"

FULLY_DISARM   == "FULLY_DISARM"
PARTIAL_DISARM == "PARTIAL_DISARM"
PARTIAL_ARM    == "PARTIAL_ARM"
FULLY_ARM      == "FULLY_ARM"
STATUS         == "STATUS"
\* any command_id_t value outside the five cases of command_execute
INVALID_ID     == "INVALID_ID"
CommandIds == {FULLY_DISARM, PARTIAL_DISARM, PARTIAL_ARM, FULLY_ARM, STATUS}
AllIds     == CommandIds \cup {INVALID_ID}

Axes == {"drive", "weapon"}

\* The axes whose ESCs task_set_escs drives with setThrottle in state s.
ArmedAxes(s) ==
  CASE s = STATE_FULLY_ARMED  -> {"drive", "weapon"}
    [] s = STATE_DRIVE_ONLY   -> {"drive"}
    [] s = STATE_WEAPON_ONLY  -> {"weapon"}
    [] OTHER                  -> {}

None == "none"

----------------------------------------------------------------------------
(* commands.cpp: the command handlers, as functions of the state read.     *)
(* Each returns the state the handler leaves and its return code; a handler*)
(* assigns targs->state exactly when that state differs from the one read. *)

\* Mutant: the assignment made before the test, so that the handler always
\* reports AlreadyDisarmed.
command_fully_disarm_late_test(s) ==
  [state |-> STATE_DISARMED, ret |-> RET_ALREADY_DISARMED]

command_fully_disarm(s) ==
  IF s = STATE_DISARMED
    THEN [state |-> s, ret |-> RET_ALREADY_DISARMED]
    ELSE [state |-> STATE_DISARMED, ret |-> RET_OK]

\* Mutant: PartialDisarm keyed on the axis, WeaponOnly drops the weapon.
command_partial_disarm_by_axis(s) ==
  CASE s = STATE_DISARMED     -> [state |-> s, ret |-> RET_ALREADY_DISARMED]
    [] s = STATE_DRIVE_ONLY   -> [state |-> STATE_DISARMED, ret |-> RET_OK]
    [] s = STATE_WEAPON_ONLY  -> [state |-> STATE_DISARMED, ret |-> RET_OK]
    [] s = STATE_FULLY_ARMED  -> [state |-> STATE_WEAPON_ONLY, ret |-> RET_OK]
    [] OTHER                  -> [state |-> s, ret |-> RET_ERROR]

command_partial_disarm(s) ==
  CASE s = STATE_DISARMED    -> [state |-> s, ret |-> RET_ALREADY_DISARMED]
    [] s = STATE_DRIVE_ONLY  -> [state |-> STATE_DISARMED, ret |-> RET_OK]
    [] s = STATE_WEAPON_ONLY -> [state |-> STATE_DRIVE_ONLY, ret |-> RET_OK]
    [] s = STATE_FULLY_ARMED -> [state |-> STATE_WEAPON_ONLY, ret |-> RET_OK]
    [] OTHER                 -> [state |-> s, ret |-> RET_ERROR]

\* Mutant: DriveOnly promoted straight to FullyArmed.
command_partial_arm_skips(s) ==
  CASE s = STATE_DISARMED    -> [state |-> STATE_DRIVE_ONLY, ret |-> RET_OK]
    [] s = STATE_DRIVE_ONLY  -> [state |-> STATE_FULLY_ARMED, ret |-> RET_OK]
    [] s = STATE_WEAPON_ONLY -> [state |-> STATE_FULLY_ARMED, ret |-> RET_OK]
    [] s = STATE_FULLY_ARMED -> [state |-> s, ret |-> RET_ALREADY_ARMED]
    [] OTHER                 -> [state |-> s, ret |-> RET_ERROR]

command_partial_arm(s) ==
  CASE s = STATE_DISARMED    -> [state |-> STATE_DRIVE_ONLY, ret |-> RET_OK]
    [] s = STATE_DRIVE_ONLY  -> [state |-> STATE_WEAPON_ONLY, ret |-> RET_OK]
    [] s = STATE_WEAPON_ONLY -> [state |-> STATE_FULLY_ARMED, ret |-> RET_OK]
    [] s = STATE_FULLY_ARMED -> [state |-> s, ret |-> RET_ALREADY_ARMED]
    [] OTHER                 -> [state |-> s, ret |-> RET_ERROR]

\* Mutant: the test inverted.
command_fully_arm_inverted(s) ==
  IF s # STATE_FULLY_ARMED
    THEN [state |-> s, ret |-> RET_ALREADY_ARMED]
    ELSE [state |-> STATE_FULLY_ARMED, ret |-> RET_OK]

command_fully_arm(s) ==
  IF s = STATE_FULLY_ARMED
    THEN [state |-> s, ret |-> RET_ALREADY_ARMED]
    ELSE [state |-> STATE_FULLY_ARMED, ret |-> RET_OK]

\* logs the state and the orientation; assigns nothing
command_status(s) == [state |-> s, ret |-> RET_OK]

\* Mutant: no default case, an unknown id falls out of the switch as success
\* after the last case's body.
command_execute_no_default(id, s) ==
  CASE id = FULLY_DISARM   -> command_fully_disarm(s)
    [] id = PARTIAL_DISARM -> command_partial_disarm(s)
    [] id = PARTIAL_ARM    -> command_partial_arm(s)
    [] id = FULLY_ARM      -> command_fully_arm(s)
    [] id = STATUS         -> command_status(s)
    [] OTHER               -> [state |-> s, ret |-> RET_OK]

command_execute(id, s) ==
  CASE id = FULLY_DISARM   -> command_fully_disarm(s)
    [] id = PARTIAL_DISARM -> command_partial_disarm(s)
    [] id = PARTIAL_ARM    -> command_partial_arm(s)
    [] id = FULLY_ARM      -> command_fully_arm(s)
    [] id = STATUS         -> command_status(s)
    [] OTHER               -> [state |-> s, ret |-> RET_ERROR]

----------------------------------------------------------------------------
(* tasks.cpp: task_failsafe and task_arming, as functions of the state read *)
(* and of the task's locals.                                                *)

\* Mutant: the two single-stall branches of FullyArmed exchanged.
task_failsafe_swapped(s, drive_inactive, weapon_inactive) ==
  CASE s = STATE_FULLY_ARMED ->
         IF drive_inactive /\ weapon_inactive THEN STATE_DISARMED
         ELSE IF drive_inactive /\ ~weapon_inactive THEN STATE_DRIVE_ONLY
         ELSE IF ~drive_inactive /\ weapon_inactive THEN STATE_WEAPON_ONLY
         ELSE s
    [] s = STATE_DRIVE_ONLY ->
         IF drive_inactive THEN STATE_DISARMED ELSE s
    [] s = STATE_WEAPON_ONLY ->
         IF weapon_inactive THEN STATE_DISARMED ELSE s
    [] OTHER -> s

\* Mutant: FullyArmed with both controllers stalled is left as it is.
task_failsafe_keeps_fully_armed(s, drive_inactive, weapon_inactive) ==
  CASE s = STATE_FULLY_ARMED ->
         IF drive_inactive /\ ~weapon_inactive THEN STATE_WEAPON_ONLY
         ELSE IF ~drive_inactive /\ weapon_inactive THEN STATE_DRIVE_ONLY
         ELSE s
    [] s = STATE_DRIVE_ONLY ->
         IF drive_inactive THEN STATE_DISARMED ELSE s
    [] s = STATE_WEAPON_ONLY ->
         IF weapon_inactive THEN STATE_DISARMED ELSE s
    [] OTHER -> s

task_failsafe(s, drive_inactive, weapon_inactive) ==
  CASE s = STATE_FULLY_ARMED ->
         IF drive_inactive /\ weapon_inactive THEN STATE_DISARMED
         ELSE IF drive_inactive /\ ~weapon_inactive THEN STATE_WEAPON_ONLY
         ELSE IF ~drive_inactive /\ weapon_inactive THEN STATE_DRIVE_ONLY
         ELSE s
    [] s = STATE_DRIVE_ONLY ->
         IF drive_inactive THEN STATE_DISARMED ELSE s
    [] s = STATE_WEAPON_ONLY ->
         IF weapon_inactive THEN STATE_DISARMED ELSE s
    [] OTHER -> s

RC_SWITCH_MIDPOINT == 50

BETWEEN(x, lo, hi) == x >= lo /\ x <= hi

\* One controller's channels as task_arming reads them from args->controls.
Centred == [sw |-> 100, thr |-> 1, ele |-> 50, rud |-> 50, ail |-> 50]
Frames ==
  LET shapes == {Centred,
                 [Centred EXCEPT !.thr = 50],
                 [Centred EXCEPT !.ele = 100],
                 [Centred EXCEPT !.rud = 0],
                 [Centred EXCEPT !.ail = 100]}
  IN  shapes \cup {[f EXCEPT !.sw = 0] : f \in shapes}

arm_switch(c) == c.sw > RC_SWITCH_MIDPOINT

\* Mutant: the throttle test left out of the gesture.
arm_gesture_any_throttle(c, stalled) ==
  /\ arm_switch(c)
  /\ ~stalled
  /\ BETWEEN(c.ele, 45, 55)
  /\ BETWEEN(c.rud, 45, 55)
  /\ BETWEEN(c.ail, 45, 55)

arm_gesture(c, stalled) ==
  /\ arm_switch(c)
  /\ ~stalled
  /\ BETWEEN(c.thr, 0, 2)
  /\ BETWEEN(c.ele, 45, 55)
  /\ BETWEEN(c.rud, 45, 55)
  /\ BETWEEN(c.ail, 45, 55)

\* The locals of one task_arming pass: c0 is controls[0] (weapon), c1 is
\* controls[1] (drive).
arming_locals(c0, c1, d_stalled, w_stalled) ==
  [weapon_switch |-> arm_switch(c0),
   drive_switch  |-> arm_switch(c1),
   weapon_arm    |-> arm_gesture(c0, w_stalled),
   drive_arm     |-> arm_gesture(c1, d_stalled)]

NoLocals ==
  [weapon_switch |-> FALSE, drive_switch |-> FALSE,
   weapon_arm |-> FALSE, drive_arm |-> FALSE]

\* Mutant: WeaponOnly with the weapon switch off assigns the wrong state.
task_arming_wrong_state(s, l) ==
  CASE s = STATE_FULLY_ARMED ->
         IF ~l.drive_switch /\ ~l.weapon_switch THEN STATE_DISARMED
         ELSE IF l.drive_switch /\ ~l.weapon_switch THEN STATE_DRIVE_ONLY
         ELSE IF ~l.drive_switch /\ l.weapon_switch THEN STATE_WEAPON_ONLY
         ELSE s
    [] s = STATE_DRIVE_ONLY ->
         IF ~l.drive_switch THEN STATE_DISARMED
         ELSE IF l.weapon_arm THEN STATE_FULLY_ARMED
         ELSE s
    [] s = STATE_WEAPON_ONLY ->
         IF ~l.weapon_switch THEN STATE_DRIVE_ONLY
         ELSE IF l.drive_arm THEN STATE_FULLY_ARMED
         ELSE s
    [] s = STATE_DISARMED ->
         IF l.drive_arm /\ l.weapon_arm THEN STATE_FULLY_ARMED
         ELSE IF l.drive_arm THEN STATE_DRIVE_ONLY
         ELSE IF l.weapon_arm THEN STATE_WEAPON_ONLY
         ELSE s
    [] OTHER -> s

\* Mutant: FullyArmed with both switches off keeps the drive armed.
task_arming_keeps_drive(s, l) ==
  CASE s = STATE_FULLY_ARMED ->
         IF ~l.drive_switch /\ ~l.weapon_switch THEN STATE_DRIVE_ONLY
         ELSE IF l.drive_switch /\ ~l.weapon_switch THEN STATE_DRIVE_ONLY
         ELSE IF ~l.drive_switch /\ l.weapon_switch THEN STATE_WEAPON_ONLY
         ELSE s
    [] s = STATE_DRIVE_ONLY ->
         IF ~l.drive_switch THEN STATE_DISARMED
         ELSE IF l.weapon_arm THEN STATE_FULLY_ARMED
         ELSE s
    [] s = STATE_WEAPON_ONLY ->
         IF ~l.weapon_switch THEN STATE_DISARMED
         ELSE IF l.drive_arm THEN STATE_FULLY_ARMED
         ELSE s
    [] s = STATE_DISARMED ->
         IF l.drive_arm /\ l.weapon_arm THEN STATE_FULLY_ARMED
         ELSE IF l.drive_arm THEN STATE_DRIVE_ONLY
         ELSE IF l.weapon_arm THEN STATE_WEAPON_ONLY
         ELSE s
    [] OTHER -> s

task_arming(s, l) ==
  CASE s = STATE_FULLY_ARMED ->
         IF ~l.drive_switch /\ ~l.weapon_switch THEN STATE_DISARMED
         ELSE IF l.drive_switch /\ ~l.weapon_switch THEN STATE_DRIVE_ONLY
         ELSE IF ~l.drive_switch /\ l.weapon_switch THEN STATE_WEAPON_ONLY
         ELSE s
    [] s = STATE_DRIVE_ONLY ->
         IF ~l.drive_switch THEN STATE_DISARMED
         ELSE IF l.weapon_arm THEN STATE_FULLY_ARMED
         ELSE s
    [] s = STATE_WEAPON_ONLY ->
         IF ~l.weapon_switch THEN STATE_DISARMED
         ELSE IF l.drive_arm THEN STATE_FULLY_ARMED
         ELSE s
    [] s = STATE_DISARMED ->
         IF l.drive_arm /\ l.weapon_arm THEN STATE_FULLY_ARMED
         ELSE IF l.drive_arm THEN STATE_DRIVE_ONLY
         ELSE IF l.weapon_arm THEN STATE_WEAPON_ONLY
         ELSE s
    [] OTHER -> s

----------------------------------------------------------------------------
(* tasks.cpp: the receiver channels, their limits and the control values.  *)
(* Pulse widths and limits are floats holding whole numbers; a control      *)
(* value is a float that may be NaN.                                        *)

\* The (controller, channel) pairs, in the order of the nested for loops.
ChannelOrder == << <<0, 0>>, <<1, 0>> >>
Channels == {ChannelOrder[i] : i \in 1..Len(ChannelOrder)}

\* The pulse widths a receiver channel measures as its stick is moved; on the
\* first channel one of them lies outside the sentinel range.
Pulses(ch) ==
  IF ch = ChannelOrder[1] THEN {1000, 1800, 12000} ELSE {1000, 1800}

calibration_time_ms == 10000
calibration_tick == 100

\* "Set all limits to extremes"
SENTINEL_MIN == 10000
SENTINEL_MAX == 0 - 10000

\* Mutant: two ticks taken off per pass.
calibration_time_after_two_ticks(t) == t - 2 * calibration_tick

\* calibration_time -= calibration_tick. calibration_time is unsigned: it
\* starts at a multiple of calibration_tick and so reaches 0 without wrapping.
calibration_time_after(t) == t - calibration_tick

\* Mutant: the comparison of "Find min" reversed.
find_min_reversed(tmp, min) == IF tmp > min THEN tmp ELSE min

\* "Find min"
find_min(tmp, min) == IF tmp < min THEN tmp ELSE min

\* Mutant: the comparison of "Find max" reversed.
find_max_reversed(tmp, max) == IF tmp < max THEN tmp ELSE max

\* "Find max"
find_max(tmp, max) == IF tmp > max THEN tmp ELSE max

\* A float: a number, or NaN.
Num(x) == [nan |-> FALSE, v |-> x]
NaN == [nan |-> TRUE, v |-> 0]

clamp(x, lo, hi) == IF x < lo THEN lo ELSE IF x > hi THEN hi ELSE x

\* x / y for floats holding whole numbers, y # 0: the quotient, truncated.
Quotient(x, y) ==
  IF y > 0
    THEN IF x >= 0 THEN x \div y ELSE 0 - ((0 - x) \div y)
    ELSE IF x >= 0 THEN 0 - (x \div (0 - y)) ELSE (0 - x) \div (0 - y)

\* Mutant: a zero-width range gives the neutral value.
normalise_guarded(pw, min, max) ==
  LET p == clamp(pw, min, max)
  IN  IF max - min = 0
        THEN Num(50)
        ELSE Num(Quotient((p - min) * 100, max - min))

\* task_read_receiver, lines 210-213: v = ((pw - min) / (max - min)) * 100.
\* With max = min the clamped pw equals min, and 0.0f / 0.0f is NaN.
normalise(pw, min, max) ==
  LET p == clamp(pw, min, max)
  IN  IF max - min = 0
        THEN NaN
        ELSE Num(Quotient((p - min) * 100, max - min))

CalIdle == [pc |-> "idle", calibration_time |-> 0, i |-> 1, tmp |-> 0]
RcvIdle == [pc |-> "read_min", i |-> 1, pw |-> 0, min |-> 0, max |-> 0]

\* The limits and the measured pulse of a channel at boot.
BootLimits == [min |-> 1000, max |-> 2000]
BootPulse == 1000

----------------------------------------------------------------------------
(* tasks.cpp: the mixer of task_set_escs. The control values of the drive   *)
(* sticks are whole numbers; the floats the mixer computes are kept in      *)
(* thousandths. The weapon throttle is a control value as                   *)
(* task_read_receiver publishes it, NaN included.                           *)

Milli == 1000

\* a control value, in thousandths
Thousandths(c) == IF c.nan THEN NaN ELSE Num(c.v * Milli)

\* const float sqrt3o2 = 1.0*sqrt(3.0)/2.0, in thousandths
sqrt3o2 == 866

\* 0.5, in thousandths
Half == 500

\* The control values one cycle of task_set_escs reads: the drive sticks
\* centred; on the edge of the deadzone (magnitude 5) with rudder applied;
\* full rudder; aileron pushed; elevation pushed, all with the weapon
\* throttle at 0; centred with the weapon throttle at 50; centred with the
\* weapon throttle published while its channel limits had min = max.
StickCentred == [ail |-> 50, ele |-> 50, rud |-> 50, thr |-> Num(0)]
Sticks ==
  LET drive == {StickCentred,
                [StickCentred EXCEPT !.ail = 53, !.ele = 54, !.rud = 60],
                [StickCentred EXCEPT !.rud = 100],
                [StickCentred EXCEPT !.ail = 99],
                [StickCentred EXCEPT !.ele = 99]}
  IN  drive \cup {[StickCentred EXCEPT !.thr = Num(50)],
                  [StickCentred EXCEPT !.thr = normalise(BootPulse, BootPulse, BootPulse)]}

\* map(x, in_min, in_max, out_min, out_max), x and the result in thousandths
map(x, in_min, in_max, out_min, out_max) ==
  Quotient((x - in_min * Milli) * (out_max - out_min), in_max - in_min)
    + out_min * Milli

\* Mutant: no else branch, the deadzone leaves the wheel outputs as they are.
mixer_no_else(o, st) ==
  LET x == st.ail - 50
      y == st.ele - 50
      moving == x * x + y * y > 5 * 5
      w0 == 0 - x * Milli
      w1 == Half * x - sqrt3o2 * y
      w2 == Half * x + sqrt3o2 * y
      add(w) == IF moving THEN map(w, 0 - 70, 70, 0, 100) - 50 * Milli ELSE 0
      rot == (st.rud - 50) * Milli
  IN  [wheel_1 |-> clamp(o.wheel_1 + add(w0) + rot, 0, 100 * Milli),
       wheel_2 |-> clamp(o.wheel_2 + add(w1) + rot, 0, 100 * Milli),
       wheel_3 |-> clamp(o.wheel_3 + add(w2) + rot, 0, 100 * Milli)]

\* task_set_escs, lines 383-429: the wheel outputs one cycle leaves, from
\* the outputs o it finds and the drive sticks st. magnitude > 5 is
\* x*x + y*y > 25; vx = magnitude * sin(atan2(x, y)) is x and vy is y.
mixer(o, st) ==
  LET x == st.ail - 50
      y == st.ele - 50
      moving == x * x + y * y > 5 * 5
      w0 == 0 - x * Milli
      w1 == Half * x - sqrt3o2 * y
      w2 == Half * x + sqrt3o2 * y
      speed(w) == map(w, 0 - 70, 70, 0, 100)
      acc(old, w) == IF moving THEN old + (speed(w) - 50 * Milli) ELSE 50 * Milli
      rot == (st.rud - 50) * Milli
  IN  [wheel_1 |-> clamp(acc(o.wheel_1, w0) + rot, 0, 100 * Milli),
       wheel_2 |-> clamp(acc(o.wheel_2, w1) + rot, 0, 100 * Milli),
       wheel_3 |-> clamp(acc(o.wheel_3, w2) + rot, 0, 100 * Milli)]

----------------------------------------------------------------------------
(* Initial state: the arming state after boot, every task at the top of    *)
(* its loop, both controllers received (StallChange leads to every other   *)
(* stall status before any task has run).                                  *)

FsIdle  == [pc |-> "sample", drive_inactive |-> FALSE, weapon_inactive |-> FALSE,
            snap |-> None]
ArmIdle == [pc |-> "sample", l |-> NoLocals, snap |-> None]
CmdIdle == [pc |-> "get", id |-> None, snap |-> None]
NoEval  == [op |-> None, pre |-> None, drive_stalled |-> FALSE,
            weapon_stalled |-> FALSE, l |-> NoLocals]

RxIdle  == [ret |-> None, id |-> None]

Escs == {"weapon"} \X {0, 1, 2} \cup {"drive"} \X {0, 1, 2}

NoCycle == [read |-> None, calls |-> {}, st |-> StickCentred]

\* args->outputs before the first cycle of task_set_escs.
BootOutputs ==
  [wheel_1 |-> 50 * Milli, wheel_2 |-> 50 * Milli, wheel_3 |-> 50 * Milli,
   weapon_motor_1 |-> Num(0), weapon_motor_2 |-> Num(0),
   weapon_motor_3 |-> Num(0)]

\* thread_args_t after boot, the arming state apart.
InitRest ==
  /\ drive_stalled = FALSE
  /\ weapon_stalled = FALSE
  /\ fs = FsIdle
  /\ arm = ArmIdle
  /\ cmd = CmdIdle
  /\ cmd_overlap = {}
  /\ arm_overlap = {}
  /\ cmd_first = None
  /\ last = NoEval
  /\ escs = [e \in Escs |-> None]
  /\ cycle = NoCycle
  /\ outputs = BootOutputs
  /\ sticks = StickCentred
  /\ command_queue = <<>>
  /\ rx = RxIdle
  /\ halted = FALSE
  /\ log = <<>>
  /\ pending = <<>>
  /\ pos = 0
  /\ touched = {}
  /\ pulse = [ch \in Channels |-> BootPulse]
  /\ channel_limits = [ch \in Channels |-> BootLimits]
  /\ controls = [ch \in Channels |->
                   normalise(BootPulse, BootLimits.min, BootLimits.max)]
  /\ cal_active = FALSE
  /\ cal = CalIdle
  /\ rcv = RcvIdle
  /\ seen = [ch \in Channels |-> {}]
  /\ passes = 0
  /\ requests = 0
  /\ resets = 0

Init ==
  /\ state = STATE_DISARMED
  /\ InitRest

\* The receivers' stall timers: a controller's signal is lost or comes back.
StallChange ==
  /\ \E d, w \in BOOLEAN :
       /\ (d # drive_stalled) # (w # weapon_stalled)
       /\ drive_stalled' = d
       /\ weapon_stalled' = w
  /\ UNCHANGED <<state, cmd, taskvars, seqvars, cmdvars, rcvars, pending, servars>>

----------------------------------------------------------------------------
(* Spec: task_failsafe, task_arming and task_process_commands as threads.  *)

\* task_failsafe, lines 317-318
FailsafeSample ==
  /\ fs.pc = "sample"
  /\ fs' = [pc |-> "switch", drive_inactive |-> drive_stalled,
            weapon_inactive |-> weapon_stalled, snap |-> None]
  /\ UNCHANGED <<armvars, arm, cmd, cmd_overlap, arm_overlap, cmd_first,
                 seqvars, cmdvars, rcvars, pending, servars>>

\* task_failsafe, line 320: switch (args->state) and the branch conditions
FailsafeSwitch ==
  /\ fs.pc = "switch"
  /\ fs' = IF task_failsafe(state, fs.drive_inactive, fs.weapon_inactive) = state
             THEN FsIdle
             ELSE [fs EXCEPT !.pc = "write", !.snap = state]
  /\ UNCHANGED <<armvars, arm, cmd, cmd_overlap, arm_overlap, cmd_first,
                 seqvars, cmdvars, rcvars, pending, servars>>

\* The axes an evaluation that read snap and writes next takes away.
Lowered(snap, next) == ArmedAxes(snap) \ ArmedAxes(next)

\* task_failsafe, the assignment of lines 323-337
FailsafeWrite ==
  /\ fs.pc = "write"
  /\ LET next == task_failsafe(fs.snap, fs.drive_inactive, fs.weapon_inactive)
     IN  /\ state' = next
         /\ cmd_overlap' = IF cmd.pc = "write"
                             THEN cmd_overlap \cup Lowered(fs.snap, next)
                             ELSE cmd_overlap
         /\ arm_overlap' = IF arm.pc = "write"
                             THEN arm_overlap \cup Lowered(fs.snap, next)
                             ELSE arm_overlap
  /\ fs' = FsIdle
  /\ cmd_first' = None
  /\ UNCHANGED <<drive_stalled, weapon_stalled, arm, cmd, seqvars, cmdvars, rcvars, pending, servars>>

\* task_arming, lines 242-261: the control values are whatever
\* task_read_receiver published last.
ArmingSample ==
  /\ arm.pc = "sample"
  /\ \E c0, c1 \in Frames :
       arm' = [pc |-> "switch",
               l |-> arming_locals(c0, c1, drive_stalled, weapon_stalled),
               snap |-> None]
  /\ UNCHANGED <<armvars, fs, cmd, cmd_overlap, arm_overlap, cmd_first,
                 seqvars, cmdvars, rcvars, pending, servars>>

\* task_arming, line 267
ArmingSwitch ==
  /\ arm.pc = "switch"
  /\ arm' = IF task_arming(state, arm.l) = state
              THEN ArmIdle
              ELSE [arm EXCEPT !.pc = "write", !.snap = state]
  /\ UNCHANGED <<armvars, fs, cmd, cmd_overlap, arm_overlap, cmd_first,
                 seqvars, cmdvars, rcvars, pending, servars>>

\* task_arming, the assignment of lines 271-299
ArmingWrite ==
  /\ arm.pc = "write"
  /\ state' = task_arming(arm.snap, arm.l)
  /\ arm' = ArmIdle
  /\ arm_overlap' = {}
  /\ cmd_first' = None
  /\ UNCHANGED <<drive_stalled, weapon_stalled, fs, cmd, cmd_overlap, seqvars, cmdvars,
                 rcvars, pending, servars>>

\* task_process_commands, line 57: the next mail of the queue
CmdGet ==
  /\ cmd.pc = "get"
  /\ \E id \in AllIds : cmd' = [pc |-> "read", id |-> id, snap |-> None]
  /\ UNCHANGED <<armvars, taskvars, seqvars, cmdvars, rcvars, pending, servars>>

\* command_execute: the handler reads targs->state
CmdRead ==
  /\ cmd.pc = "read"
  /\ cmd' = IF command_execute(cmd.id, state).state = state
              THEN CmdIdle
              ELSE [cmd EXCEPT !.pc = "write", !.snap = state]
  /\ UNCHANGED <<armvars, taskvars, seqvars, cmdvars, rcvars, pending, servars>>

\* command_execute: the handler assigns targs->state
CmdWrite ==
  /\ cmd.pc = "write"
  /\ state' = command_execute(cmd.id, cmd.snap).state
  /\ cmd' = CmdIdle
  /\ cmd_overlap' = {}
  /\ cmd_first' = IF arm.pc = "write" /\ arm.snap = cmd.snap /\ state = cmd.snap
                    THEN command_execute(cmd.id, cmd.snap).state
                    ELSE None
  /\ UNCHANGED <<drive_stalled, weapon_stalled, fs, arm, arm_overlap, seqvars, cmdvars,
                 rcvars, pending, servars>>

Next ==
  \/ StallChange
  \/ FailsafeSample
  \/ FailsafeSwitch
  \/ FailsafeWrite
  \/ ArmingSample
  \/ ArmingSwitch
  \/ ArmingWrite
  \/ CmdGet
  \/ CmdRead
  \/ CmdWrite

Spec == Init /\ [][Next]_vars

\* task_failsafe is a thread whose loop never blocks: the scheduler runs its
\* next step again and again.
FailsafeStep ==
  \/ FailsafeSample
  \/ FailsafeSwitch
  \/ FailsafeWrite

SpecLive == Spec /\ WF_vars(FailsafeStep)

----------------------------------------------------------------------------
(* SpecSeq: one pass of task_failsafe, task_arming or task_set_escs at a   *)
(* time, each run from its reads to its write without interference.        *)

\* One pass of the loop body of task_failsafe, lines 317-340.
FailsafeEval ==
  /\ state' = task_failsafe(state, drive_stalled, weapon_stalled)
  /\ last' = [op |-> "failsafe", pre |-> state, drive_stalled |-> drive_stalled,
              weapon_stalled |-> weapon_stalled, l |-> NoLocals]
  /\ UNCHANGED <<drive_stalled, weapon_stalled, cmd, taskvars, escs, cycle,
                 outputs, sticks, cmdvars,
                 rcvars, pending, servars>>

\* One pass of the loop body of task_arming, lines 242-301.
ArmingEval ==
  /\ \E c0, c1 \in Frames :
       LET l == arming_locals(c0, c1, drive_stalled, weapon_stalled)
       IN  /\ state' = task_arming(state, l)
           /\ last' = [op |-> "arming", pre |-> state,
                       drive_stalled |-> drive_stalled,
                       weapon_stalled |-> weapon_stalled, l |-> l]
  /\ UNCHANGED <<drive_stalled, weapon_stalled, cmd, taskvars, escs, cycle,
                 outputs, sticks, cmdvars,
                 rcvars, pending, servars>>

\* Mutant: no break after the DriveOnly case, which falls through into the
\* WeaponOnly case.
esc_calls_fall_through(s) ==
  CASE s = STATE_FULLY_ARMED ->
         {[esc |-> e, call |-> "setThrottle"] : e \in Escs}
    [] s = STATE_DRIVE_ONLY ->
         {[esc |-> e, call |-> "setThrottle"] : e \in Escs}
    [] s = STATE_WEAPON_ONLY ->
         {[esc |-> e, call |-> "setThrottle"] : e \in {"weapon"} \X {0, 1, 2}}
    [] s = STATE_DISARMED ->
         {[esc |-> e, call |-> "failsafe"] : e \in Escs}
    [] OTHER -> {}

\* task_set_escs, lines 431-457: the calls one dispatch cycle issues when it
\* reads arming state s.
esc_calls(s) ==
  CASE s = STATE_FULLY_ARMED ->
         {[esc |-> e, call |-> "setThrottle"] : e \in Escs}
    [] s = STATE_DRIVE_ONLY ->
         {[esc |-> e, call |-> "setThrottle"] : e \in {"drive"} \X {0, 1, 2}}
    [] s = STATE_WEAPON_ONLY ->
         {[esc |-> e, call |-> "setThrottle"] : e \in {"weapon"} \X {0, 1, 2}}
    [] s = STATE_DISARMED ->
         {[esc |-> e, call |-> "failsafe"] : e \in Escs}
    [] OTHER -> {}

\* task_set_escs, lines 433-449: the value of args->outputs o that a
\* setThrottle call on each ESC is given, in thousandths.
esc_values(o) ==
  [e \in Escs |->
     CASE e = <<"weapon", 0>> -> o.weapon_motor_1
       [] e = <<"weapon", 1>> -> o.weapon_motor_2
       [] e = <<"weapon", 2>> -> o.weapon_motor_3
       [] e = <<"drive", 0>>  -> Num(o.wheel_1)
       [] e = <<"drive", 1>>  -> Num(o.wheel_2)
       [] e = <<"drive", 2>>  -> Num(o.wheel_3)]

\* One cycle of task_set_escs, lines 377-457: the weapon outputs, the mixer,
\* the dispatch.
SetEscs ==
  /\ outputs' = mixer(outputs, sticks) @@
                  [m \in {"weapon_motor_1", "weapon_motor_2", "weapon_motor_3"}
                     |-> Thousandths(sticks.thr)]
  /\ cycle' = [read |-> state, calls |-> esc_calls(state), st |-> sticks]
  /\ escs' = [e \in Escs |->
                IF \E c \in esc_calls(state) : c.esc = e
                  THEN (CHOOSE c \in esc_calls(state) : c.esc = e).call
                  ELSE escs[e]]
  /\ UNCHANGED <<armvars, cmd, taskvars, last, sticks, cmdvars, rcvars, pending, servars>>

NextSeq ==
  \/ StallChange
  \/ FailsafeEval
  \/ ArmingEval
  \/ SetEscs

SpecSeq == Init /\ [][NextSeq]_vars

----------------------------------------------------------------------------
(* SpecMix: task_set_escs cycle after cycle while the sticks are moved.    *)

\* task_read_receiver has published other control values for the channels
\* task_set_escs reads.
StickChange ==
  /\ \E st \in Sticks :
       /\ st # sticks
       /\ sticks' = st
  /\ UNCHANGED <<armvars, cmd, taskvars, last, escs, cycle, outputs, cmdvars,
                 rcvars, pending, servars>>

NextMix ==
  \/ StickChange
  \/ SetEscs

SpecMix == Init /\ [][NextMix]_vars

\* SpecEsc: the same cycles, run in whichever arming state the other tasks
\* have left.
InitEsc ==
  /\ state \in States
  /\ InitRest

SpecEsc == InitEsc /\ [][NextMix]_vars

----------------------------------------------------------------------------
(* SpecCmd: task_read_serial at the ENTER key, the mail queue,             *)
(* task_process_commands, and command_execute called on any command.       *)

\* What an entered line is to command_generate: the id of the first entry of
\* available_commands its first word matches, or no entry.
NO_MATCH == "NO_MATCH"
Lines == CommandIds \cup {NO_MATCH}

\* command_generate: RET_OK with the command populated, or RET_ERROR.
command_generate(line) ==
  IF line \in CommandIds
    THEN [ret |-> RET_OK, id |-> line]
    ELSE [ret |-> RET_ERROR, id |-> None]

\* The test !command_generate(...): true for the code that is 0, which is
\* the one "no match" returns ("Return false (0) if no match is found").
IsZero(ret) == ret = RET_ERROR

\* Mail blocks in use: those queued and the one the processor holds.
PoolUsed == Len(command_queue) + (IF cmd.pc \in {"exec", "free"} THEN 1 ELSE 0)

\* The run of executions of one command, the newest last, at most n kept.
Logged(l, e, n) ==
  IF l # <<>> /\ l[Len(l)].id = e.id
    THEN IF Len(l) < n THEN Append(l, e) ELSE Append(Tail(l), e)
    ELSE <<e>>

Executed(id) ==
  LET res == command_execute(id, state)
  IN  /\ state' = res.state
      /\ log' = Logged(log, [id |-> id, pre |-> state, ret |-> res.ret,
                             post |-> res.state], MaxLog)

\* task_read_serial, lines 93-98: ENTER ends the line, command_generate runs
SerialEnter ==
  /\ ~halted
  /\ rx = RxIdle
  /\ \E line \in Lines : rx' = command_generate(line)
  /\ UNCHANGED <<armvars, cmd, taskvars, seqvars, command_queue, halted, log, rcvars, pending, servars>>

\* task_read_serial, lines 98-99: "Command not recognised!"
SerialNotRecognised ==
  /\ ~halted
  /\ rx # RxIdle
  /\ IsZero(rx.ret)
  /\ rx' = RxIdle
  /\ UNCHANGED <<armvars, cmd, taskvars, seqvars, command_queue, halted, log, rcvars, pending, servars>>

\* task_read_serial, lines 100-104: alloc, memcpy, put
SerialPut ==
  /\ ~halted
  /\ rx # RxIdle
  /\ ~IsZero(rx.ret)
  /\ PoolUsed < MaxQueue
  /\ command_queue' = Append(command_queue, rx.id)
  /\ pending' = Append(pending, rx.id)
  /\ rx' = RxIdle
  /\ UNCHANGED <<armvars, cmd, taskvars, seqvars, halted, log, rcvars, servars>>

\* task_read_serial, lines 100-104 with no free mail block: alloc returns
\* NULL, memcpy writes through it (undefined: a hard fault, or a write that
\* is lost), and put(NULL) queues nothing.
SerialAllocFails ==
  /\ ~halted
  /\ rx # RxIdle
  /\ ~IsZero(rx.ret)
  /\ PoolUsed >= MaxQueue
  /\ halted' \in BOOLEAN
  /\ rx' = RxIdle
  /\ UNCHANGED <<armvars, cmd, taskvars, seqvars, command_queue, log, rcvars, pending, servars>>

\* task_process_commands, line 57
ProcessGet ==
  /\ ~halted
  /\ cmd.pc = "get"
  /\ command_queue # <<>>
  /\ cmd' = [pc |-> "exec", id |-> Head(command_queue), snap |-> None]
  /\ command_queue' = Tail(command_queue)
  /\ UNCHANGED <<armvars, taskvars, seqvars, rx, halted, log, rcvars, pending, servars>>

\* task_process_commands, lines 58-64
ProcessExecute ==
  /\ ~halted
  /\ cmd.pc = "exec"
  /\ Executed(cmd.id)
  /\ cmd' = [cmd EXCEPT !.pc = "free"]
  /\ pending' = IF pending # <<>> THEN Tail(pending) ELSE pending
  /\ UNCHANGED <<drive_stalled, weapon_stalled, taskvars, seqvars,
                 command_queue, rx, halted, rcvars, servars>>

\* task_process_commands, line 65
ProcessFree ==
  /\ ~halted
  /\ cmd.pc = "free"
  /\ cmd' = CmdIdle
  /\ UNCHANGED <<armvars, taskvars, seqvars, cmdvars, rcvars, pending, servars>>

\* command_execute on a command_t of any id
CallExecute ==
  /\ ~halted
  /\ \E id \in AllIds : Executed(id)
  /\ UNCHANGED <<drive_stalled, weapon_stalled, cmd, taskvars, seqvars,
                 command_queue, rx, halted, rcvars, pending, servars>>

NextCmd ==
  \/ StallChange
  \/ SerialEnter
  \/ SerialNotRecognised
  \/ SerialPut
  \/ SerialAllocFails
  \/ ProcessGet
  \/ ProcessExecute
  \/ ProcessFree
  \/ CallExecute

SpecCmd == Init /\ [][NextCmd]_vars

\* task_process_commands is a thread: command_queue->get(1) returns after
\* its timeout at the latest and the scheduler runs the next step.
ProcessStep ==
  \/ ProcessGet
  \/ ProcessExecute
  \/ ProcessFree

SpecCmdLive == SpecCmd /\ WF_vars(ProcessStep)

----------------------------------------------------------------------------
(* SpecSerial: task_read_serial character by character, the command       *)
(* processor not yet started.                                              *)

\* char buffer[100]
BufferSize == 100

\* What serial->getc() returns: ENTER, backspace, any other character.
CR == "ENTER"
BS == "BACKSPACE"
CH == "character"
Chars == {CR, BS, CH}

\* task_read_serial, lines 90-114: one pass with a character c read at
\* position p. stray tells whether the byte found at an index the pass has
\* not written is a backspace. Gives the position the pass leaves, the
\* indices of buffer it read or wrote, and those it wrote.
serial_pass(p, c, stray) ==
  LET enter  == c = CR
      p1     == IF enter THEN 0 - 1 ELSE p
      bs     == IF enter THEN stray ELSE c = BS
      p2     == IF bs THEN p1 - 1 ELSE p1
  IN  [pos     |-> p2 + 1,
       touched |-> {p, p1, p2 + 1} \cup (IF enter THEN {p + 1} ELSE {}),
       written |-> {p, p2 + 1} \cup (IF enter THEN {p + 1} ELSE {})
                     \cup (IF bs THEN {p1} ELSE {})]

InBuffer(i) == i >= 0 /\ i < BufferSize

\* One pass of task_read_serial with a character readable. At ENTER
\* command_generate runs on the line. A write outside buffer is undefined:
\* the MCU takes a hard fault, or goes on.
SerialGetc ==
  /\ ~halted
  /\ rx = RxIdle
  /\ pos < BufferSize + MaxOverrun
  /\ \E c \in Chars, stray \in BOOLEAN, line \in Lines :
       LET r == serial_pass(pos, c, stray)
       IN  /\ pos' = r.pos
           /\ touched' = r.touched
           /\ rx' = IF c = CR THEN command_generate(line) ELSE rx
           /\ halted' \in IF \A i \in r.written : InBuffer(i)
                            THEN {FALSE} ELSE BOOLEAN
  /\ UNCHANGED <<armvars, cmd, taskvars, seqvars, command_queue, log, rcvars,
                 pending>>

NextSerial ==
  \/ SerialGetc
  \/ SerialNotRecognised
  \/ SerialPut
  \/ SerialAllocFails

SpecSerial == Init /\ [][NextSerial]_vars

----------------------------------------------------------------------------
(* SpecCal: task_calibrate_channels, the operator moving the sticks, and   *)
(* the calibration flag set from outside.                                  *)
(* SpecRx: task_calibrate_channels and task_read_receiver as threads, the  *)
(* sticks at rest.                                                         *)

others == <<armvars, cmd, taskvars, seqvars, cmdvars, pending, servars>>

\* The operator moves a stick: a channel measures another pulse width.
PulseChange ==
  /\ \E ch \in Channels :
       \E p \in Pulses(ch) :
         /\ p # pulse[ch]
         /\ pulse' = [pulse EXCEPT ![ch] = p]
  /\ UNCHANGED <<others, channel_limits, controls, cal_active, cal, rcv, calobs>>

\* The calibration task is activated from outside the task.
SetCalibrate ==
  /\ ~cal_active
  /\ requests < MaxRuns
  /\ cal_active' = TRUE
  /\ requests' = requests + 1
  /\ UNCHANGED <<others, pulse, channel_limits, controls, cal, rcv, seen,
                 passes, resets>>

\* task_calibrate_channels, lines 633-638: the flag is set, a run begins
CalStart ==
  /\ cal.pc = "idle"
  /\ cal_active
  /\ cal' = [pc |-> "reset_min", calibration_time |-> calibration_time_ms,
             i |-> 1, tmp |-> 0]
  /\ seen' = [ch \in Channels |-> {}]
  /\ passes' = 0
  /\ resets' = resets + 1
  /\ UNCHANGED <<others, pulse, channel_limits, controls, cal_active, rcv,
                 requests>>

\* line 643
CalResetMin ==
  /\ cal.pc = "reset_min"
  /\ channel_limits' =
       [channel_limits EXCEPT ![ChannelOrder[cal.i]].min = SENTINEL_MIN]
  /\ cal' = [cal EXCEPT !.pc = "reset_max"]
  /\ UNCHANGED <<others, pulse, controls, cal_active, rcv, calobs>>

\* line 644, and the loop heads of lines 641-642 and 649
CalResetMax ==
  /\ cal.pc = "reset_max"
  /\ channel_limits' =
       [channel_limits EXCEPT ![ChannelOrder[cal.i]].max = SENTINEL_MAX]
  /\ cal' = IF cal.i < Len(ChannelOrder)
              THEN [cal EXCEPT !.pc = "reset_min", !.i = cal.i + 1]
              ELSE IF cal.calibration_time > 0
                     THEN [cal EXCEPT !.pc = "sample", !.i = 1]
                     ELSE [cal EXCEPT !.pc = "deactivate", !.i = 1]
  /\ UNCHANGED <<others, pulse, controls, cal_active, rcv, calobs>>

\* line 658
CalSample ==
  /\ cal.pc = "sample"
  /\ LET ch == ChannelOrder[cal.i]
     IN  /\ cal' = [cal EXCEPT !.pc = "find_min", !.tmp = pulse[ch]]
         /\ seen' = [seen EXCEPT ![ch] = @ \cup {pulse[ch]}]
  /\ UNCHANGED <<others, pulse, channel_limits, controls, cal_active, rcv,
                 passes, requests, resets>>

\* lines 660-662
CalFindMin ==
  /\ cal.pc = "find_min"
  /\ channel_limits' =
       [channel_limits EXCEPT ![ChannelOrder[cal.i]].min = find_min(cal.tmp, @)]
  /\ cal' = [cal EXCEPT !.pc = "find_max"]
  /\ UNCHANGED <<others, pulse, controls, cal_active, rcv, calobs>>

\* lines 665-667, and the loop heads of lines 656-657
CalFindMax ==
  /\ cal.pc = "find_max"
  /\ channel_limits' =
       [channel_limits EXCEPT ![ChannelOrder[cal.i]].max = find_max(cal.tmp, @)]
  /\ cal' = IF cal.i < Len(ChannelOrder)
              THEN [cal EXCEPT !.pc = "sample", !.i = cal.i + 1, !.tmp = 0]
              ELSE [cal EXCEPT !.pc = "tick", !.i = 1, !.tmp = 0]
  /\ UNCHANGED <<others, pulse, controls, cal_active, rcv, calobs>>

\* lines 670-671 and the loop test of line 649
CalTick ==
  /\ cal.pc = "tick"
  /\ LET t == calibration_time_after(cal.calibration_time)
     IN  cal' = IF t > 0
                  THEN [cal EXCEPT !.pc = "sample", !.calibration_time = t]
                  ELSE [cal EXCEPT !.pc = "deactivate", !.calibration_time = t]
  /\ passes' = passes + 1
  /\ UNCHANGED <<others, pulse, channel_limits, controls, cal_active, rcv,
                 seen, requests, resets>>

\* line 692
CalDeactivate ==
  /\ cal.pc = "deactivate"
  /\ cal_active' = FALSE
  /\ cal' = CalIdle
  /\ UNCHANGED <<others, pulse, channel_limits, controls, rcv, calobs>>

NextCal ==
  \/ PulseChange
  \/ SetCalibrate
  \/ CalStart
  \/ CalResetMin
  \/ CalResetMax
  \/ CalSample
  \/ CalFindMin
  \/ CalFindMax
  \/ CalTick
  \/ CalDeactivate

SpecCal == Init /\ [][NextCal]_vars

\* task_read_receiver, lines 203-206
ReceiverReadMin ==
  /\ rcv.pc = "read_min"
  /\ LET ch == ChannelOrder[rcv.i]
     IN  rcv' = [rcv EXCEPT !.pc = "read_max", !.pw = pulse[ch],
                            !.min = channel_limits[ch].min]
  /\ UNCHANGED <<others, pulse, channel_limits, controls, cal_active, cal,
                 calobs>>

\* line 207
ReceiverReadMax ==
  /\ rcv.pc = "read_max"
  /\ rcv' = [rcv EXCEPT !.pc = "publish",
                        !.max = channel_limits[ChannelOrder[rcv.i]].max]
  /\ UNCHANGED <<others, pulse, channel_limits, controls, cal_active, cal,
                 calobs>>

\* lines 210-216, and the loop heads of lines 200-201
ReceiverPublish ==
  /\ rcv.pc = "publish"
  /\ controls' = [controls EXCEPT
                    ![ChannelOrder[rcv.i]] = normalise(rcv.pw, rcv.min, rcv.max)]
  /\ rcv' = [RcvIdle EXCEPT !.i = IF rcv.i < Len(ChannelOrder)
                                    THEN rcv.i + 1 ELSE 1]
  /\ UNCHANGED <<others, pulse, channel_limits, cal_active, cal, calobs>>

NextRx ==
  \/ SetCalibrate
  \/ CalStart
  \/ CalResetMin
  \/ CalResetMax
  \/ CalSample
  \/ CalFindMin
  \/ CalFindMax
  \/ CalTick
  \/ CalDeactivate
  \/ ReceiverReadMin
  \/ ReceiverReadMax
  \/ ReceiverPublish

SpecRx == Init /\ [][NextRx]_vars

----------------------------------------------------------------------------
(* Claims settled under Spec *)

Stalled(a) == IF a = "drive" THEN drive_stalled ELSE weapon_stalled

FailsafeWrites == fs.pc = "write" /\ fs'.pc # "write"
ArmingWrites   == arm.pc = "write" /\ arm'.pc # "write"
CmdWrites      == cmd.pc = "write" /\ cmd'.pc # "write"

\* C1 (as claimed): no step of the failsafe task changes the arming state to
\* one in which an axis is armed that was not armed immediately before the
\* step.
C1_FailsafeNeverArms ==
  [][fs' # fs => ArmedAxes(state') \subseteq ArmedAxes(state)]_vars

\* C4 (as claimed): every write to the arming state is the writer's
\* transition rule evaluated on the value the arming state holds at the
\* moment of the write (no writer writes from a stale snapshot).
C4_WritesSerialized ==
  [][/\ FailsafeWrites =>
          state' = task_failsafe(state, fs.drive_inactive, fs.weapon_inactive)
     /\ ArmingWrites => state' = task_arming(state, arm.l)
     /\ CmdWrites => state' = command_execute(cmd.id, state).state]_vars

\* The axes an evaluation that read snap and writes next newly arms.
Promoted(snap, next) == ArmedAxes(next) \ ArmedAxes(snap)

\* C5 (as claimed): when a failsafe evaluation lowered an axis for a stall
\* while a promotion of that axis (by the arming task, or by a PartialArm /
\* FullyArm command) was between its read and its write, then once both have
\* written the axis, still stalled, is not armed.
C5_DemoteNotLost ==
  [][/\ (CmdWrites /\ cmd.id \in {PARTIAL_ARM, FULLY_ARM}) =>
          \A a \in cmd_overlap \cap Promoted(cmd.snap, state') :
             Stalled(a) => a \notin ArmedAxes(state')
     /\ ArmingWrites =>
          \A a \in arm_overlap \cap Promoted(arm.snap, state') :
             Stalled(a) => a \notin ArmedAxes(state')]_vars

\* C22: if from some point on both controllers remain stalled and no
\* command is taken from the queue or in execution, then, the failsafe task
\* being scheduled fairly, the arming state eventually is Disarmed and stays
\* Disarmed, whatever the arming task does in between.
C22_StalledEndsDisarmed ==
  <>[](drive_stalled /\ weapon_stalled /\ cmd.pc = "get")
    => <>[](state = STATE_DISARMED)

\* C22 witness: both controllers stalled, no command in progress, and the
\* failsafe has lowered the state to Disarmed while the arming task was
\* between its read and its write.
C22_Witness ==
  /\ drive_stalled /\ weapon_stalled
  /\ cmd.pc = "get"
  /\ state = STATE_DISARMED
  /\ arm.pc = "write"
  /\ arm_overlap = {"drive", "weapon"}

\* C13 (as claimed): when a command and an arming-task evaluation have both
\* read the same arming state, the state after both have written is the one
\* the command determined: the arming task's write does not replace what the
\* command wrote.
C13_CommandPrevails ==
  [][(ArmingWrites /\ cmd_first # None) => state' = cmd_first]_vars

\* The edges of the transition table of section 4.1.
TableEdges ==
  {<<STATE_DISARMED, STATE_DRIVE_ONLY>>, <<STATE_DISARMED, STATE_WEAPON_ONLY>>,
   <<STATE_DRIVE_ONLY, STATE_DISARMED>>, <<STATE_DRIVE_ONLY, STATE_FULLY_ARMED>>,
   <<STATE_WEAPON_ONLY, STATE_DISARMED>>, <<STATE_WEAPON_ONLY, STATE_FULLY_ARMED>>,
   <<STATE_FULLY_ARMED, STATE_DISARMED>>, <<STATE_FULLY_ARMED, STATE_WEAPON_ONLY>>,
   <<STATE_FULLY_ARMED, STATE_DRIVE_ONLY>>}

----------------------------------------------------------------------------
(* Claims settled under SpecSeq *)

\* C2: one failsafe evaluation maps (state, drive_stalled, weapon_stalled)
\* to: FullyArmed, both stalled -> Disarmed; FullyArmed, only drive stalled
\* -> WeaponOnly; FullyArmed, only weapon stalled -> DriveOnly; DriveOnly,
\* drive stalled -> Disarmed; WeaponOnly, weapon stalled -> Disarmed; in
\* every other case the state is unchanged.
C2_FailsafeTable ==
  last.op = "failsafe" =>
    LET d == last.drive_stalled
        w == last.weapon_stalled
    IN  state =
          IF last.pre = STATE_FULLY_ARMED /\ d /\ w THEN STATE_DISARMED
          ELSE IF last.pre = STATE_FULLY_ARMED /\ d /\ ~w THEN STATE_WEAPON_ONLY
          ELSE IF last.pre = STATE_FULLY_ARMED /\ ~d /\ w THEN STATE_DRIVE_ONLY
          ELSE IF last.pre = STATE_DRIVE_ONLY /\ d THEN STATE_DISARMED
          ELSE IF last.pre = STATE_WEAPON_ONLY /\ w THEN STATE_DISARMED
          ELSE last.pre

\* C2 witness: a failsafe evaluation from FullyArmed with only the drive
\* controller stalled has left WeaponOnly.
C2_Witness ==
  /\ last.op = "failsafe"
  /\ last.pre = STATE_FULLY_ARMED
  /\ last.drive_stalled
  /\ ~last.weapon_stalled
  /\ state = STATE_WEAPON_ONLY

ThrottleTo(group) ==
  \E c \in cycle.calls : c.call = "setThrottle" /\ c.esc[1] = group

\* C3: in every dispatch cycle setThrottle goes to the drive ESCs only if
\* the state read is DriveOnly or FullyArmed, to the weapon ESCs only if it
\* is WeaponOnly or FullyArmed; when the state read is Disarmed, failsafe()
\* goes to all six ESCs and setThrottle to none.
C3_DispatchGated ==
  cycle.read # None =>
    /\ ThrottleTo("drive") => cycle.read \in {STATE_DRIVE_ONLY, STATE_FULLY_ARMED}
    /\ ThrottleTo("weapon") => cycle.read \in {STATE_WEAPON_ONLY, STATE_FULLY_ARMED}
    /\ cycle.read = STATE_DISARMED =>
         /\ \A e \in Escs : [esc |-> e, call |-> "failsafe"] \in cycle.calls
         /\ \A c \in cycle.calls : c.call # "setThrottle"

\* C3 witness: a cycle that read DriveOnly drove the drive ESCs and no
\* weapon ESC, after an earlier cycle had sent failsafe() to the weapon ESCs.
C3_Witness ==
  /\ cycle.read = STATE_DRIVE_ONLY
  /\ ThrottleTo("drive")
  /\ ~ThrottleTo("weapon")
  /\ escs[<<"weapon", 0>>] = "failsafe"
  /\ escs[<<"drive", 0>>] = "setThrottle"

\* The channel conditions of the arm gesture of one controller.
GestureHeld(c, stalled) ==
  /\ c.sw > RC_SWITCH_MIDPOINT
  /\ ~stalled
  /\ c.thr >= 0 /\ c.thr <= 2
  /\ c.ele >= 45 /\ c.ele <= 55
  /\ c.rud >= 45 /\ c.rud <= 55
  /\ c.ail >= 45 /\ c.ail <= 55

\* C11: whenever one arming-task evaluation arms an axis that was not armed
\* before, that axis's arm-gesture flag held in that evaluation, and the flag
\* holds only when the axis's switch channel is above the midpoint, its
\* controller is not stalled, its throttle is within [0,2] and its elevation,
\* rudder and aileron are each within [45,55].
C11_ArmedOnlyByGesture ==
  /\ last.op = "arming" =>
       /\ "drive" \in Promoted(last.pre, state) => last.l.drive_arm
       /\ "weapon" \in Promoted(last.pre, state) => last.l.weapon_arm
  /\ \A c0, c1 \in Frames : \A d, w \in BOOLEAN :
       LET l == arming_locals(c0, c1, d, w)
       IN  /\ l.weapon_arm => GestureHeld(c0, w)
           /\ l.drive_arm => GestureHeld(c1, d)

\* C11 witness: an arming evaluation in DriveOnly, with the weapon gesture
\* held and the drive sticks off centre, has armed the weapon.
C11_Witness ==
  /\ last.op = "arming"
  /\ last.pre = STATE_DRIVE_ONLY
  /\ state = STATE_FULLY_ARMED
  /\ last.l.weapon_arm
  /\ ~last.l.drive_arm

\* C12: after every arming-task evaluation every armed axis has its arm
\* switch on: from FullyArmed, both switches off gives Disarmed, only the
\* drive switch on gives DriveOnly, only the weapon switch on gives
\* WeaponOnly; from DriveOnly a drive switch that is off gives Disarmed; from
\* WeaponOnly a weapon switch that is off gives Disarmed.
C12_ArmedAxesHaveSwitchOn ==
  last.op = "arming" =>
    LET ds == last.l.drive_switch
        ws == last.l.weapon_switch
    IN  /\ "drive" \in ArmedAxes(state) => ds
        /\ "weapon" \in ArmedAxes(state) => ws
        /\ last.pre = STATE_FULLY_ARMED =>
              state = IF ~ds /\ ~ws THEN STATE_DISARMED
                      ELSE IF ds /\ ~ws THEN STATE_DRIVE_ONLY
                      ELSE IF ~ds /\ ws THEN STATE_WEAPON_ONLY
                      ELSE STATE_FULLY_ARMED
        /\ (last.pre = STATE_DRIVE_ONLY /\ ~ds) => state = STATE_DISARMED
        /\ (last.pre = STATE_WEAPON_ONLY /\ ~ws) => state = STATE_DISARMED

\* C12 witness: an arming evaluation in FullyArmed with only the weapon
\* switch on has left WeaponOnly.
C12_Witness ==
  /\ last.op = "arming"
  /\ last.pre = STATE_FULLY_ARMED
  /\ ~last.l.drive_switch
  /\ last.l.weapon_switch
  /\ state = STATE_WEAPON_ONLY

\* C26: when a dispatch cycle completes with the weapon axis disarmed (state
\* read Disarmed or DriveOnly), no weapon ESC is left with setThrottle as
\* the last call it received; when it completes with the drive axis
\* disarmed (Disarmed or WeaponOnly), no drive ESC is.
C26_DisarmedAxisNotRunning ==
  /\ cycle.read \in {STATE_DISARMED, STATE_DRIVE_ONLY} =>
       \A i \in {0, 1, 2} : escs[<<"weapon", i>>] # "setThrottle"
  /\ cycle.read \in {STATE_DISARMED, STATE_WEAPON_ONLY} =>
       \A i \in {0, 1, 2} : escs[<<"drive", i>>] # "setThrottle"

----------------------------------------------------------------------------
(* Claims settled under SpecMix *)

Wheels(o) == <<o.wheel_1, o.wheel_2, o.wheel_3>>

\* magnitude <= 5
Deadzone(st) ==
  (st.ail - 50) * (st.ail - 50) + (st.ele - 50) * (st.ele - 50) <= 5 * 5

\* clamp(50 + (rudder - 50), 0, 100), in thousandths
Neutral(st) == clamp(50 * Milli + (st.rud - 50) * Milli, 0, 100 * Milli)

\* wheel outputs a cycle may find: the ends of the range, neutral, and an
\* accumulated value
FoundOutputs ==
  {[wheel_1 |-> v, wheel_2 |-> 100 * Milli - v, wheel_3 |-> 50 * Milli] :
     v \in {0, 15 * Milli, 50 * Milli, 100 * Milli}}

\* C19: after a mixer cycle whose joystick magnitude is at most 5, each wheel
\* output equals clamp(50 + (rudder - 50), 0, 100), whatever the wheel
\* outputs were before the cycle; sticks all centred give 50 on every wheel.
C19_DeadzoneNeutral ==
  /\ (cycle.read # None /\ Deadzone(cycle.st)) =>
       /\ Wheels(outputs) = <<Neutral(cycle.st), Neutral(cycle.st), Neutral(cycle.st)>>
       /\ (cycle.st.rud = 50 => Wheels(outputs) = <<50 * Milli, 50 * Milli, 50 * Milli>>)
  /\ \A o \in FoundOutputs, st \in Sticks :
       Deadzone(st) =>
         Wheels(mixer(o, st)) = <<Neutral(st), Neutral(st), Neutral(st)>>

\* a cycle on the edge of the deadzone, rudder applied, has run
C19_Witness ==
  /\ cycle.read # None
  /\ cycle.st.ail = 53 /\ cycle.st.ele = 54 /\ cycle.st.rud = 60
  /\ Wheels(outputs) = <<60 * Milli, 60 * Milli, 60 * Milli>>

\* C20: two consecutive mixer cycles with identical aileron, elevation and
\* rudder produce identical wheel outputs, also outside the deadzone: the
\* wheel outputs never depend on the previous cycle's wheel outputs.
C20_NoOutputFeedback ==
  [][(cycle.read # None /\ cycle'.st = cycle.st) =>
       Wheels(outputs') = Wheels(outputs)]_vars

----------------------------------------------------------------------------
(* Claims settled under SpecEsc *)

\* C21: every value passed to setThrottle on any of the six actuators is
\* within [0,100], and the three weapon values equal the weapon throttle
\* control value of the cycle.
C21_ThrottleValuesInRange ==
  \A c \in cycle.calls :
    c.call = "setThrottle" =>
      /\ ~esc_values(outputs)[c.esc].nan
      /\ esc_values(outputs)[c.esc].v >= 0
      /\ esc_values(outputs)[c.esc].v <= 100 * Milli
      /\ c.esc[1] = "weapon" =>
           esc_values(outputs)[c.esc] = Thousandths(cycle.st.thr)

----------------------------------------------------------------------------
(* Claims settled under SpecCmd *)

LastExec == log[Len(log)]

\* C7: from Disarmed, with no other writer, four PartialArm commands in a row
\* leave DriveOnly, WeaponOnly, FullyArmed and FullyArmed again; the first
\* three return success and the fourth AlreadyArmed.
C7_PartialArmChain ==
  (log # <<>> /\ log[1].id = PARTIAL_ARM /\ log[1].pre = STATE_DISARMED) =>
    LET expected == <<[ret |-> RET_OK, post |-> STATE_DRIVE_ONLY],
                      [ret |-> RET_OK, post |-> STATE_WEAPON_ONLY],
                      [ret |-> RET_OK, post |-> STATE_FULLY_ARMED],
                      [ret |-> RET_ALREADY_ARMED, post |-> STATE_FULLY_ARMED]>>
    IN  /\ \A i \in 1..Len(log) :
             i <= 4 => /\ log[i].ret = expected[i].ret
                       /\ log[i].post = expected[i].post
        /\ state = LastExec.post

\* C7 witness: the fourth PartialArm of a run that began in Disarmed has
\* returned.
C7_Witness ==
  /\ Len(log) >= 4
  /\ log[1].id = PARTIAL_ARM
  /\ log[1].pre = STATE_DISARMED
  /\ log[4].ret = RET_ALREADY_ARMED
  /\ state = STATE_FULLY_ARMED

\* C8: FullyArm from any state but FullyArmed sets FullyArmed and returns
\* success, FullyDisarm from any state but Disarmed sets Disarmed and returns
\* success, whatever the stall status; from the target state they return
\* AlreadyArmed, resp. AlreadyDisarmed.
C8_SetExact ==
  log # <<>> =>
    /\ LastExec.id = FULLY_ARM =>
         /\ state = STATE_FULLY_ARMED
         /\ LastExec.ret = IF LastExec.pre = STATE_FULLY_ARMED
                             THEN RET_ALREADY_ARMED ELSE RET_OK
    /\ LastExec.id = FULLY_DISARM =>
         /\ state = STATE_DISARMED
         /\ LastExec.ret = IF LastExec.pre = STATE_DISARMED
                             THEN RET_ALREADY_DISARMED ELSE RET_OK

\* C8 witness: FullyArm has jumped from Disarmed to FullyArmed with both
\* controllers stalled.
C8_Witness ==
  /\ log # <<>>
  /\ LastExec.id = FULLY_ARM
  /\ LastExec.pre = STATE_DISARMED
  /\ LastExec.ret = RET_OK
  /\ state = STATE_FULLY_ARMED
  /\ drive_stalled
  /\ weapon_stalled

\* C9: an execution that returns AlreadyArmed or AlreadyDisarmed leaves the
\* arming state as it was, and the same command executed again returns the
\* same code and leaves the state as it was.
C9_AlreadyIsNoOp ==
  \A i \in 1..Len(log) :
    log[i].ret \in {RET_ALREADY_ARMED, RET_ALREADY_DISARMED} =>
      /\ log[i].post = log[i].pre
      /\ i = Len(log) => state = log[i].pre
      /\ i < Len(log) => /\ log[i + 1].ret = log[i].ret
                         /\ log[i + 1].post = log[i].pre

\* C9 witness: PartialDisarm has returned AlreadyDisarmed twice in a row
\* from Disarmed.
C9_Witness ==
  /\ Len(log) >= 2
  /\ log[1].id = PARTIAL_DISARM
  /\ log[1].pre = STATE_DISARMED
  /\ log[1].ret = RET_ALREADY_DISARMED
  /\ log[2].ret = RET_ALREADY_DISARMED
  /\ state = STATE_DISARMED

\* C10: Status returns success and leaves the arming state unchanged; an id
\* outside the five commands returns RET_ERROR and leaves it unchanged; a
\* line for which command_generate finds no match is not put on the queue.
C10_NoEffect ==
  [][/\ log' # <<>> =>
          LET e == log'[Len(log')]
          IN  /\ e.id = STATUS => e.ret = RET_OK /\ e.post = e.pre /\ state' = e.pre
              /\ e.id \notin CommandIds =>
                   e.ret = RET_ERROR /\ e.post = e.pre /\ state' = e.pre
     /\ (rx # RxIdle /\ rx.ret = RET_ERROR) =>
          Len(command_queue') <= Len(command_queue)]_vars

\* C10 witness: an unknown id has been executed in FullyArmed, and the
\* serial reader holds a line that matched no command.
C10_Witness ==
  /\ log # <<>>
  /\ LastExec.id = INVALID_ID
  /\ LastExec.pre = STATE_FULLY_ARMED
  /\ state = STATE_FULLY_ARMED
  /\ rx.ret = RET_ERROR
  /\ command_queue = <<>>
  /\ cmd.pc = "get"

\* The execution a step has added to the log.
NewExec == log'[Len(log')]

\* C24: PartialDisarm steps down the chain FullyArmed -> WeaponOnly ->
\* DriveOnly -> Disarmed that PartialArm steps up, keyed on the current state
\* only: from a state other than FullyArmed, PartialArm and then
\* PartialDisarm return to it; from a state other than Disarmed,
\* PartialDisarm and then PartialArm return to it.
C24_DisarmChainMirrorsArm ==
  [][(log' # log /\ log' # <<>>) =>
       /\ NewExec.id = PARTIAL_DISARM =>
            /\ state' = NewExec.post
            /\ NewExec.post =
                 CASE NewExec.pre = STATE_FULLY_ARMED -> STATE_WEAPON_ONLY
                   [] NewExec.pre = STATE_WEAPON_ONLY -> STATE_DRIVE_ONLY
                   [] OTHER                           -> STATE_DISARMED
       /\ (/\ log # <<>>
           /\ LastExec.id = PARTIAL_ARM
           /\ LastExec.pre # STATE_FULLY_ARMED
           /\ NewExec.id = PARTIAL_DISARM) => state' = LastExec.pre
       /\ (/\ log # <<>>
           /\ LastExec.id = PARTIAL_DISARM
           /\ LastExec.pre # STATE_DISARMED
           /\ NewExec.id = PARTIAL_ARM) => state' = LastExec.pre]_vars

\* C24 witness: PartialDisarm has stepped down from WeaponOnly to DriveOnly.
C24_Witness ==
  /\ Len(log) = 1
  /\ LastExec.id = PARTIAL_DISARM
  /\ LastExec.pre = STATE_WEAPON_ONLY
  /\ LastExec.ret = RET_OK
  /\ state = STATE_DRIVE_ONLY

\* C25: after FullyDisarm or PartialDisarm no axis is armed that was not
\* armed immediately before the command, whatever the starting state.
C25_DisarmNeverArms ==
  (log # <<>> /\ LastExec.id \in {FULLY_DISARM, PARTIAL_DISARM}) =>
    ArmedAxes(LastExec.post) \subseteq ArmedAxes(LastExec.pre)

\* C23: every command the serial reader has put on the queue is executed by
\* the command processor, also when the queue is full at the time another
\* command is typed: a command waiting to be executed leads to the
\* processor having executed a command, the oldest first.
C23_PlacedIsExecuted ==
  (pending # <<>>) ~> (cmd.pc = "free")

----------------------------------------------------------------------------
(* Claims settled under SpecSerial *)

\* C27: every read or write of the 100-byte line buffer by the serial reader
\* uses an index within 0..99, after any sequence of characters, backspaces
\* and ENTER.
C27_BufferIndexInRange ==
  \A i \in touched : InBuffer(i)

----------------------------------------------------------------------------
(* Claims settled under SpecRx *)

InRange(c) == ~c.nan /\ c.v >= 0 /\ c.v <= 100

ReceiverPublishes == rcv.pc = "publish" /\ rcv'.pc # "publish"

\* C14 (as claimed): every control value the receiver task computes, for
\* every raw pulse width and every pair of channel limits, is a number
\* within [0,100], the range min = max included.
C14_ControlsInRange ==
  \A ch \in Channels : InRange(controls[ch])

\* C15 (as claimed): while a calibration run is in progress, every control
\* value the receiver task publishes is a number within [0,100], whichever
\* limits its two reads saw.
C15_ControlsInRangeWhileCalibrating ==
  [][(ReceiverPublishes /\ cal.pc # "idle") =>
       InRange(controls'[ChannelOrder[rcv.i]])]_vars

----------------------------------------------------------------------------
(* Claims settled under SpecCal *)

SetMin(S) == CHOOSE x \in S : \A y \in S : x <= y
SetMax(S) == CHOOSE x \in S : \A y \in S : x >= y

RunComplete == cal.pc = "deactivate" \/ (cal.pc = "idle" /\ resets > 0)

\* C16: when a calibration run has completed, for every channel whose
\* samples of the run all lay inside the sentinel range (-10000, 10000), the
\* stored min is the smallest and the stored max the largest pulse width
\* sampled on that channel during the run.
C16_LimitsAreExtremes ==
  RunComplete =>
    \A ch \in Channels :
      (\A p \in seen[ch] : p > SENTINEL_MAX /\ p < SENTINEL_MIN) =>
        /\ seen[ch] # {}
        /\ channel_limits[ch].min = SetMin(seen[ch])
        /\ channel_limits[ch].max = SetMax(seen[ch])

\* C16 witness: a run has completed in which the first channel measured 1000
\* and 1800 and nothing else.
C16_Witness ==
  /\ cal.pc = "deactivate"
  /\ seen[ChannelOrder[1]] = {1000, 1800}
  /\ channel_limits[ChannelOrder[1]] = [min |-> 1000, max |-> 1800]

\* C17: from the end of the first full sampling pass of a calibration run,
\* during the rest of the run and after it, every channel has max >= min.
C17_MaxNotBelowMin ==
  passes >= 1 =>
    \A ch \in Channels : channel_limits[ch].max >= channel_limits[ch].min

\* C17 witness: the first pass has ended, and on the first channel it
\* sampled a pulse width above the sentinel: min is still the sentinel.
C17_Witness ==
  /\ passes = 1
  /\ cal.pc = "sample"
  /\ channel_limits[ChannelOrder[1]] = [min |-> SENTINEL_MIN, max |-> 12000]
  /\ channel_limits[ChannelOrder[2]].min = channel_limits[ChannelOrder[2]].max

\* C18: a run begins only after the flag was set from outside, once per
\* setting; it resets the limits before its first pass only, makes exactly
\* calibration_time_ms / calibration_tick = 100 sampling passes, and when it
\* has ended the flag is clear until it is set from outside again.
C18_OneRunPerActivation ==
  /\ calibration_time_ms \div calibration_tick = 100
  /\ passes <= 100
  /\ RunComplete => passes = 100
  /\ cal.pc \in {"reset_min", "reset_max"} => passes = 0
  /\ cal.pc # "idle" => cal_active /\ resets = requests
  /\ cal.pc = "idle" =>
       IF cal_active THEN resets = requests - 1 ELSE resets = requests

\* C18 witness: the second run has ended after 100 passes and has cleared
\* the flag.
C18_Witness ==
  /\ cal.pc = "idle"
  /\ ~cal_active
  /\ requests = 2
  /\ resets = 2
  /\ passes = 100

====
